---- MODULE Spec2Model ----
(***************************************************************************)
(* A model of the DriveUploader plugin (src/main.ts): the settings and     *)
(* their persistence, the OAuth authorization flow (authenticateUser), the *)
(* startup reconciliation pass (syncFiles), the drop/paste upload path     *)
(* (handleUpload), the deletion propagator (deleteFileFromDrive) and the   *)
(* remote folder they act on.                                              *)
(*                                                                         *)
(* Every `await` of the source is a suspension point: a handler is a       *)
(* record with a position (pc), and one action of the model is one         *)
(* synchronous run of code between two suspension points.  A remote call   *)
(* is a record "in flight" that a later action resolves or rejects.        *)
(***************************************************************************)
EXTENDS Naturals, Sequences, FiniteSets, TLC

(***************************************************************************)
(* Bounds of the model.                                                    *)
(***************************************************************************)
\* files directly inside the configured local directory
MaxLocal == 2
\* objects in the remote folder before the plugin runs
MaxRemote == 2
\* calls of onload (each starts one reconciliation pass)
MaxPasses == 2
\* invocations of authenticateUser
MaxAuths == 2
\* local delete events
MaxDeletes == 2
\* drop / paste events
MaxEvents == 2
\* files carried by one drop / paste event
MaxEventFiles == 2

(***************************************************************************)
(* JavaScript values.                                                      *)
(***************************************************************************)
\* the value `undefined`
Undefined == "<undefined>"

\* JavaScript truthiness of a string-or-undefined value
Truthy(v) == v # "" /\ v # Undefined

(***************************************************************************)
(* Settings and their persistence.  Of the eight fields of                 *)
(* DriveUploaderSettings the model keeps the five that the authorization   *)
(* flow reads or writes; redirectUri, folderId and fileDirectory are fixed *)
(* for a run.                                                              *)
(***************************************************************************)
SettingsKeys == {"clientId", "clientSecret", "authorizationCode", "accessToken", "refreshToken"}

DEFAULT_SETTINGS ==
    [clientId |-> "", clientSecret |-> "", authorizationCode |-> "",
     accessToken |-> "", refreshToken |-> ""]

\* saveData(settings): JSON serialization drops the fields whose value is undefined
saveData(s) == [k \in {x \in SettingsKeys : s[x] # Undefined} |-> s[k]]

\* Object.assign({}, DEFAULT_SETTINGS, data): the stored fields over the defaults
loadSettings(data) ==
    [k \in SettingsKeys |-> IF k \in DOMAIN data THEN data[k] ELSE DEFAULT_SETTINGS[k]]

\* what loadData() gives on a fresh install: nothing stored
NoData == [k \in {} |-> ""]

\* values typed into the client id / client secret fields of the settings tab
ClientValues == {"", "x"}

\* values typed into the authorization-code prompt
AuthCodes == {"", "code"}

\* responses of a successful token exchange; Google omits refresh_token when
\* the user has consented before
TokenResponses ==
    { [access_token |-> "at", refresh_token |-> "rt"],
      [access_token |-> "at", refresh_token |-> Undefined] }

VARIABLES
    settings,       \* this.settings
    saved,          \* the plugin's persisted data (data.json)
    isAuth,         \* this.isAuth
    alreadyNotice,  \* the last onload showed "App is already authenticated"
    exchanged,      \* history: some token exchange has succeeded
    auths,          \* the invocations of authenticateUser
    dirKind,        \* what the vault holds at the configured fileDirectory path
    children,       \* the items directly inside the configured local directory
    rootFiles,      \* names of the files at the vault root
    remote,         \* the objects of the remote folder: records [id, name]
    nextId,         \* the id the remote store gives to the next object
    passes,         \* the calls of syncFiles
    uploads,        \* the calls of uploadFileToDrive (one create call each)
    events,         \* the runs of handleUpload
    dels,           \* the runs of deleteFileFromDrive
    deleteCalls     \* the calls of drive.files.delete

vars == <<settings, saved, isAuth, alreadyNotice, exchanged, auths, dirKind, children,
          rootFiles, remote, nextId, passes, uploads, events, dels, deleteCalls>>

authVars == <<settings, saved, isAuth, alreadyNotice, exchanged, auths>>
vaultVars == <<dirKind, children, rootFiles>>
remoteVars == <<remote, nextId>>

(***************************************************************************)
(* The local vault.  An item of a folder is a TFile or a TFolder; a TFile  *)
(* has a name and an extension (the part of the name after the last dot).  *)
(***************************************************************************)
AllItems ==
    << [name |-> "a.md", extension |-> "md", isFile |-> TRUE],
       [name |-> "b.PNG", extension |-> "PNG", isFile |-> TRUE],
       [name |-> "c.xyz", extension |-> "xyz", isFile |-> TRUE],
       [name |-> "d.constructor", extension |-> "constructor", isFile |-> TRUE],
       [name |-> "sub", extension |-> "", isFile |-> FALSE] >>

\* the names of the objects the remote folder may hold before the plugin runs;
\* the remote store lets two objects of a folder have the same name
InitialObjects == << "a.md", "b.PNG", "c.xyz", "d.constructor", "a.md" >>

\* the names of the files a drop / paste event may carry
EventNames == {"a.md", "b.PNG"}

\* the names a local delete event may carry
DeleteNames == {"a.md", "b.PNG"}

\* the item of the vault with a given name
ItemNamed(n) == AllItems[CHOOSE i \in DOMAIN AllItems : AllItems[i].name = n]

\* the items whose index is in I, in the order of AllItems
ItemsAt(I) ==
    LET pick[k \in 0..Len(AllItems)] ==
            IF k = 0 THEN << >>
            ELSE IF k \in I THEN Append(pick[k - 1], AllItems[k]) ELSE pick[k - 1]
    IN pick[Len(AllItems)]

\* the objects whose index is in I, with the ids 1..n in the order of InitialObjects
RemoteOf(I) ==
    { [id |-> Cardinality({j \in I : j <= i}), name |-> InitialObjects[i]] : i \in I }

(***************************************************************************)
(* getMimeType and the Blob / File construction of syncFiles.              *)
(***************************************************************************)
\* String.prototype.toLowerCase on the strings of the model
toLowerCase(s) ==
    CASE s = "PNG" -> "png"
      [] s = "function Object() { [native code] }" -> "function object() { [native code] }"
      [] s = "[object Object]" -> "[object object]"
      [] OTHER -> s

\* the own properties of the object literal mimeTypes
mimeTypes ==
    ("txt" :> "text/plain") @@ ("md" :> "text/markdown") @@ ("html" :> "text/html") @@
    ("css" :> "text/css") @@ ("js" :> "application/javascript") @@
    ("json" :> "application/json") @@ ("xml" :> "application/xml") @@
    ("jpg" :> "image/jpeg") @@ ("jpeg" :> "image/jpeg") @@ ("png" :> "image/png") @@
    ("gif" :> "image/gif") @@ ("svg" :> "image/svg+xml") @@ ("pdf" :> "application/pdf") @@
    ("zip" :> "application/zip") @@ ("rar" :> "application/vnd.rar") @@
    ("mp3" :> "audio/mpeg") @@ ("mp4" :> "video/mp4")

\* mimeTypes is an object literal, so it inherits Object.prototype; these are
\* the inherited properties with an all-lower-case key, each given as the
\* string its value converts to
ObjectPrototype ==
    ("constructor" :> "function Object() { [native code] }") @@
    ("__proto__" :> "[object Object]")

\* mimeTypes[key]: an own property, else an inherited one, else undefined
mimeTypesGet(key) ==
    IF key \in DOMAIN mimeTypes THEN mimeTypes[key]
    ELSE IF key \in DOMAIN ObjectPrototype THEN ObjectPrototype[key]
    ELSE Undefined

getMimeType(tfile) ==
    LET extension == toLowerCase(tfile.extension)
        v == mimeTypesGet(extension)
    IN IF Truthy(v) THEN v ELSE "application/octet-stream"

\* new Blob([..], {type}).type: the type in lower case (every type of the model
\* is printable ASCII, which the Blob constructor keeps)
BlobType(type) == toLowerCase(type)

\* the File that syncFiles hands to uploadFileToDrive
convertedFile(tfile) == [name |-> tfile.name, type |-> BlobType(BlobType(getMimeType(tfile)))]

\* the type the browser gives a dropped file
BrowserType == "browser"

\* listFilesInFolder(this.settings.fileDirectory)
listFilesInFolder ==
    IF dirKind = "folder"
    THEN SelectSeq(children, LAMBDA item : item.isFile)
    ELSE << >>

\* driveFiles.find(driveFile => driveFile.name === name): the candidates
\* listFilesInFolder logs "The specified folder does not exist or is not a
\* folder." in its else branch
folderErrorLogged == dirKind # "folder"

FindByName_Mut(driveFiles, name) == driveFiles

FindByName(driveFiles, name) == {f \in driveFiles : f.name = name}

\* the index of the first file from `from` on that the loop of syncFiles does
\* not skip, Len + 1 when there is none
NextMissing(driveFiles, vaultFiles, from) ==
    LET S == {j \in from..Len(vaultFiles) : FindByName(driveFiles, vaultFiles[j].name) = {}}
    IN IF S = {} THEN Len(vaultFiles) + 1 ELSE CHOOSE j \in S : \A k \in S : j <= k

(***************************************************************************)
(* onload and the settings tab.                                            *)
(***************************************************************************)
\* the record of a call of syncFiles that has issued its list call: the client
\* data it read (empty on a fresh install), whether listFilesInFolder logged its
\* error, and the notice it showed (syncFiles itself shows none); afterDone is
\* history: the call before it had resolved when this one was made
NewPass == [pc |-> "listing", driveFiles |-> {}, vaultFiles |-> << >>, i |-> 0,
            clientId |-> "", clientSecret |-> "", logged |-> FALSE, notice |-> "",
            afterDone |-> FALSE]

\* an authorization dialog of an earlier load is gone once the plugin loads again
Abandon(a) ==
    [a EXCEPT !.prompt = IF a.prompt = "open" THEN "closed" ELSE a.prompt,
              !.exchange = IF a.exchange \in {"inflight", "saving"} THEN "abandoned"
                           ELSE a.exchange]

\* onload: loadSettings, then syncFiles() runs up to its list call, the
\* handlers are registered and the "already authenticated" notice is shown
Onload ==
    /\ Len(passes) < MaxPasses
    /\ settings' = loadSettings(saved)
    /\ passes' = Append(passes, [NewPass EXCEPT !.afterDone = (passes[Len(passes)].pc = "done"),
                                                !.clientId = settings'.clientId,
                                                !.clientSecret = settings'.clientSecret])
    /\ alreadyNotice' = (Truthy(settings'.accessToken) /\ Truthy(settings'.refreshToken))
    /\ isAuth' = FALSE
    /\ auths' = [i \in DOMAIN auths |-> Abandon(auths[i])]
    /\ UNCHANGED <<saved, exchanged, vaultVars, remoteVars, uploads, events, dels, deleteCalls>>

\* the onChange of the "Client Id" field: the setting is stored and saved
SetClientId(value) ==
    /\ value # settings.clientId
    /\ settings' = [settings EXCEPT !.clientId = value]
    /\ saved' = saveData(settings')
    /\ UNCHANGED <<isAuth, alreadyNotice, exchanged, auths, vaultVars, remoteVars,
                   passes, uploads, events, dels, deleteCalls>>

\* the onChange of the "Client Secret" field
SetClientSecret(value) ==
    /\ value # settings.clientSecret
    /\ settings' = [settings EXCEPT !.clientSecret = value]
    /\ saved' = saveData(settings')
    /\ UNCHANGED <<isAuth, alreadyNotice, exchanged, auths, vaultVars, remoteVars,
                   passes, uploads, events, dels, deleteCalls>>

(***************************************************************************)
(* authenticateUser.  An invocation is a record: the client data it read,  *)
(* whether it opened the authorization URL, its code prompt (none, open,   *)
(* closed), its token exchange (none, inflight, saving, ok, failed,        *)
(* savefailed, abandoned) and the notice it showed.                        *)
(***************************************************************************)
InvalidClientData_Mut(clientId, clientSecret) == clientId = "" /\ clientSecret = ""

\* the guard of line 94
InvalidClientData(clientId, clientSecret) == clientId = "" \/ clientSecret = ""

AuthenticateUser ==
    /\ Len(auths) < MaxAuths
    /\ LET clientId == settings.clientId
           clientSecret == settings.clientSecret
           base == [clientId |-> clientId, clientSecret |-> clientSecret,
                    url |-> FALSE, prompt |-> "none", exchange |-> "none",
                    data |-> NoData, notice |-> ""]
       IN auths' = Append(auths,
             IF InvalidClientData(clientId, clientSecret)
             THEN [base EXCEPT !.notice = "Invalid client data"]
             ELSE [base EXCEPT !.url = TRUE, !.prompt = "open"])
    /\ UNCHANGED <<settings, saved, isAuth, alreadyNotice, exchanged, vaultVars,
                   remoteVars, passes, uploads, events, dels, deleteCalls>>

\* the submit button of the prompt: onSubmit(authCode) runs up to getToken
SubmitCode(a, authCode) ==
    /\ auths[a].prompt = "open"
    /\ settings' = [settings EXCEPT !.authorizationCode = authCode]
    /\ auths' = [auths EXCEPT ![a].prompt = "closed",
                              ![a].exchange = IF Truthy(authCode) THEN "inflight" ELSE "none"]
    /\ UNCHANGED <<saved, isAuth, alreadyNotice, exchanged, vaultVars, remoteVars,
                   passes, uploads, events, dels, deleteCalls>>

\* lines 117-118: the tokens of the response are stored
StoreTokens(s, tokens) ==
    [s EXCEPT !.accessToken = tokens.access_token, !.refreshToken = tokens.refresh_token]

\* getToken resolves: the tokens are stored and saveData is called
GetTokenResolves(a, tokens) ==
    /\ auths[a].exchange = "inflight"
    /\ settings' = StoreTokens(settings, tokens)
    /\ exchanged' = TRUE
    /\ auths' = [auths EXCEPT ![a].exchange = "saving", ![a].data = saveData(settings')]
    /\ UNCHANGED <<saved, isAuth, alreadyNotice, vaultVars, remoteVars,
                   passes, uploads, events, dels, deleteCalls>>

\* the settings after the catch block of lines 123-126
AfterAuthError_Mut(s) == [s EXCEPT !.accessToken = "", !.refreshToken = ""]

AfterAuthError(s) == s

\* getToken rejects: the catch block logs and shows the failure notice
GetTokenRejects(a) ==
    /\ auths[a].exchange = "inflight"
    /\ settings' = AfterAuthError(settings)
    /\ auths' = [auths EXCEPT ![a].exchange = "failed", ![a].notice = "Authentication failed."]
    /\ UNCHANGED <<saved, isAuth, alreadyNotice, exchanged, vaultVars, remoteVars,
                   passes, uploads, events, dels, deleteCalls>>

\* saveData resolves: isAuth is set and the success notice is shown
SaveDataResolves(a) ==
    /\ auths[a].exchange = "saving"
    /\ saved' = auths[a].data
    /\ isAuth' = TRUE
    /\ auths' = [auths EXCEPT ![a].exchange = "ok", ![a].notice = "Authentication successful!"]
    /\ UNCHANGED <<settings, alreadyNotice, exchanged, vaultVars, remoteVars,
                   passes, uploads, events, dels, deleteCalls>>

\* saveData rejects inside the try block: the catch block runs
SaveDataRejects(a) ==
    /\ auths[a].exchange = "saving"
    /\ settings' = AfterAuthError(settings)
    /\ auths' = [auths EXCEPT ![a].exchange = "savefailed",
                              ![a].notice = "Authentication failed."]
    /\ UNCHANGED <<saved, isAuth, alreadyNotice, exchanged, vaultVars, remoteVars,
                   passes, uploads, events, dels, deleteCalls>>

(***************************************************************************)
(* uploadFileToDrive.  A call is a record: the file's name and type, who   *)
(* called it (by: "sync" or "drop", owner: the index of the pass or of the *)
(* event), the state of its create call (inflight, ok, failed) and the     *)
(* notice it showed.                                                       *)
(***************************************************************************)
\* uploadFileToDrive(file) up to its await: the create call is issued (held
\* records whether the remote folder has an object of that name at that time)
NewUpload(file, by, owner) ==
    [name |-> file.name, type |-> file.type, by |-> by, owner |-> owner,
     status |-> "inflight", notice |-> "",
     held |-> \E r \in remote : r.name = file.name]

(***************************************************************************)
(* syncFiles.  A call is a record: pc (listing, reading, done,             *)
(* listRejected, readRejected), the listing and the enumeration it got,    *)
(* and the index i of the file whose content it is reading.                *)
(***************************************************************************)
\* the loop of lines 249-257 from index `from` up to its next await
LoopFrom(pass, driveFiles, vaultFiles, from) ==
    LET j == NextMissing(driveFiles, vaultFiles, from)
    IN [pass EXCEPT !.driveFiles = driveFiles, !.vaultFiles = vaultFiles, !.i = j,
                    !.pc = IF j <= Len(vaultFiles) THEN "reading" ELSE "done"]

\* the list call resolves: the local files are enumerated and the loop starts
SyncListResolves(p) ==
    /\ passes[p].pc = "listing"
    /\ passes' = [passes EXCEPT ![p] = [LoopFrom(@, remote, listFilesInFolder, 1)
                                          EXCEPT !.logged = folderErrorLogged]]
    /\ UNCHANGED <<authVars, vaultVars, remoteVars, uploads, events, dels, deleteCalls>>

\* the list call rejects: nothing catches it, syncFiles rejects
SyncListRejects(p) ==
    /\ passes[p].pc = "listing"
    /\ passes' = [passes EXCEPT ![p].pc = "listRejected"]
    /\ UNCHANGED <<authVars, vaultVars, remoteVars, uploads, events, dels, deleteCalls>>

\* vault.read resolves: the file is converted, uploadFileToDrive is called
\* without await, and the loop goes on
SyncReadResolves(p) ==
    /\ passes[p].pc = "reading"
    /\ LET pass == passes[p]
           file == pass.vaultFiles[pass.i]
       IN /\ uploads' = Append(uploads, NewUpload(convertedFile(file), "sync", p))
          /\ passes' = [passes EXCEPT
                          ![p] = LoopFrom(@, pass.driveFiles, pass.vaultFiles, pass.i + 1)]
    /\ UNCHANGED <<authVars, vaultVars, remoteVars, events, dels, deleteCalls>>

\* vault.read rejects: nothing catches it, the loop is left and syncFiles rejects
SyncReadRejects(p) ==
    /\ passes[p].pc = "reading"
    /\ passes' = [passes EXCEPT ![p].pc = "readRejected"]
    /\ UNCHANGED <<authVars, vaultVars, remoteVars, uploads, events, dels, deleteCalls>>

(***************************************************************************)
(* handleUpload.  A run is a record: the event (kind, files), pc           *)
(* (uploading, renaming, done), the index i of the file it is at and the   *)
(* names whose relocation it attempted.                                    *)
(***************************************************************************)
\* event.dataTransfer.files: a DragEvent ("editor-drop") carries its files there;
\* the ClipboardEvent of "editor-paste" carries them in clipboardData and has no
\* dataTransfer property.  The value is a set: empty for undefined, else the
\* one file list.
dataTransfer(event) == IF event.kind = "drop" THEN {event.files} ELSE {}

\* the run of handleUpload at file i: uploadFileToDrive is called and awaited,
\* or the loop is over
AtFile(run, i) ==
    [run EXCEPT !.i = i, !.pc = IF i <= Len(run.files) THEN "uploading" ELSE "done"]

UploadsAt_Mut(ups, run, e, i) ==
    IF i <= Len(run.files)
    THEN ups \o [k \in 1..(Len(run.files) - i + 1) |->
                   NewUpload([name |-> run.files[i + k - 1], type |-> BrowserType], "drop", e)]
    ELSE ups

\* the uploads after the run `e` has reached file i
UploadsAt(ups, run, e, i) ==
    IF i <= Len(run.files)
    THEN Append(ups, NewUpload([name |-> run.files[i], type |-> BrowserType], "drop", e))
    ELSE ups

\* a drop or paste event arrives
HandleUpload(kind, files) ==
    /\ Len(events) < MaxEvents
    /\ LET event == [kind |-> kind, files |-> files]
           run == [kind |-> kind, files |-> files, pc |-> "done", i |-> 0, moved |-> << >>]
           e == Len(events) + 1
       IN IF dataTransfer(event) # {} /\ \A fs \in dataTransfer(event) : Len(fs) > 0
          THEN /\ events' = Append(events, AtFile(run, 1))
               /\ uploads' = UploadsAt(uploads, run, e, 1)
          ELSE /\ events' = Append(events, run)
               /\ uploads' = uploads
    /\ UNCHANGED <<authVars, vaultVars, remoteVars, passes, dels, deleteCalls>>

\* lines 213-223 after the awaited upload of file i of run e: the rename is
\* issued when the vault has the file at its root, else the next file is taken
AfterUpload(evs, ups, e) ==
    LET run == evs[e]
        name == run.files[run.i]
    IN IF name \in rootFiles
       THEN <<[evs EXCEPT ![e].pc = "renaming", ![e].moved = Append(@, name)], ups>>
       ELSE <<[evs EXCEPT ![e] = AtFile(@, run.i + 1)], UploadsAt(ups, run, e, run.i + 1)>>

\* the create call of upload u is over: a call from handleUpload resumes its run
Resume(ups, u) ==
    IF ups[u].by = "drop" THEN AfterUpload(events, ups, ups[u].owner) ELSE <<events, ups>>

AfterCreate_Mut(objects, id, name) ==
    {r \in objects : r.name # name} \cup {[id |-> id, name |-> name]}

\* drive.files.create with a name and the parent folder: the folder gets one
\* more object under a fresh id, whatever names it holds already
AfterCreate(objects, id, name) == objects \cup {[id |-> id, name |-> name]}

\* the create call resolves: the remote folder has a new object
CreateResolves(u) ==
    /\ uploads[u].status = "inflight"
    /\ remote' = AfterCreate(remote, nextId, uploads[u].name)
    /\ nextId' = nextId + 1
    /\ LET ups == [uploads EXCEPT ![u].status = "ok", ![u].notice = "Uploaded"]
           next == Resume(ups, u)
       IN events' = next[1] /\ uploads' = next[2]
    /\ UNCHANGED <<authVars, vaultVars, passes, dels, deleteCalls>>

\* the create call rejects: the catch block shows the failure notice
CreateRejects(u) ==
    /\ uploads[u].status = "inflight"
    /\ LET ups == [uploads EXCEPT ![u].status = "failed", ![u].notice = "Failed to upload"]
           next == Resume(ups, u)
       IN events' = next[1] /\ uploads' = next[2]
    /\ UNCHANGED <<authVars, vaultVars, remoteVars, passes, dels, deleteCalls>>

\* vault.rename resolves: the file is now inside the local directory
RenameResolves(e) ==
    /\ events[e].pc = "renaming"
    /\ dirKind = "folder"
    /\ LET run == events[e]
           name == run.files[run.i]
       IN /\ name \in rootFiles
          /\ \A c \in DOMAIN children : children[c].name # name
          /\ rootFiles' = rootFiles \ {name}
          /\ children' = Append(children, ItemNamed(name))
          /\ events' = [events EXCEPT ![e] = AtFile(@, run.i + 1)]
          /\ uploads' = UploadsAt(uploads, run, e, run.i + 1)
    /\ UNCHANGED <<authVars, dirKind, remoteVars, passes, dels, deleteCalls>>

\* vault.rename rejects: the catch block logs, the loop goes on
RenameRejects(e) ==
    /\ events[e].pc = "renaming"
    /\ LET run == events[e]
       IN /\ events' = [events EXCEPT ![e] = AtFile(@, run.i + 1)]
          /\ uploads' = UploadsAt(uploads, run, e, run.i + 1)
    /\ UNCHANGED <<authVars, vaultVars, remoteVars, passes, dels, deleteCalls>>

(***************************************************************************)
(* deleteFileFromDrive.  A run is a record: the deleted file's name, pc    *)
(* (listing, done, listRejected), the listing it got and the notice it     *)
(* showed.  A call of drive.files.delete is a record: its fileId, the run  *)
(* that made it and its state (inflight, ok, failed).                      *)
(***************************************************************************)
\* the vault after the file named n is deleted from `place`
DeleteLocal(n, place) ==
    /\ place = "dir" => \E c \in DOMAIN children : children[c].name = n
    /\ place = "root" => n \in rootFiles
    /\ children' = IF place = "dir"
                   THEN SelectSeq(children, LAMBDA item : item.name # n) ELSE children
    /\ rootFiles' = IF place = "root" THEN rootFiles \ {n} ELSE rootFiles
    /\ UNCHANGED dirKind

\* the vault's "delete" event for a file named n: the list call is issued
\* (upsBefore records how many uploads were started before the event)
DeleteEvent(n, place) ==
    /\ Len(dels) < MaxDeletes
    /\ DeleteLocal(n, place)
    /\ dels' = Append(dels, [name |-> n, pc |-> "listing", driveFiles |-> {}, notice |-> "",
                             upsBefore |-> Len(uploads)])
    /\ UNCHANGED <<authVars, remoteVars, passes, uploads, events, deleteCalls>>

\* the fileId of a delete call whose thisFile is undefined (ids start at 1)
NoId == 0

\* the value of thisFile when find returns undefined
NoFile == [id |-> NoId, name |-> Undefined]

\* thisFile?.id
IdOf(thisFile) == IF thisFile = NoFile THEN NoId ELSE thisFile.id

\* what find may return: a listed object of that name (the first in the order
\* of the listing, which the remote store chooses), undefined when there is none
FindResults(driveFiles, name) ==
    IF FindByName(driveFiles, name) = {} THEN {NoFile} ELSE FindByName(driveFiles, name)

\* the list call resolves: the delete call is issued without await and the
\* success notice is shown
DeleteListResolves(d, thisFile) ==
    /\ dels[d].pc = "listing"
    /\ thisFile \in FindResults(remote, dels[d].name)
    /\ deleteCalls' = Append(deleteCalls,
                             [fileId |-> IdOf(thisFile), by |-> d, status |-> "inflight"])
    /\ dels' = [dels EXCEPT ![d].pc = "done", ![d].driveFiles = remote,
                            ![d].notice = "File successfully deleted"]
    /\ UNCHANGED <<authVars, vaultVars, remoteVars, passes, uploads, events>>

\* the list call rejects: the catch block shows the failure notice
DeleteListRejects(d) ==
    /\ dels[d].pc = "listing"
    /\ dels' = [dels EXCEPT ![d].pc = "listRejected", ![d].notice = "File wasn't deleted"]
    /\ UNCHANGED <<authVars, vaultVars, remoteVars, passes, uploads, events, deleteCalls>>

\* the delete call resolves: the object of that id is gone
DeleteCallResolves(c) ==
    /\ deleteCalls[c].status = "inflight"
    /\ \E f \in remote : f.id = deleteCalls[c].fileId
    /\ remote' = {f \in remote : f.id # deleteCalls[c].fileId}
    /\ deleteCalls' = [deleteCalls EXCEPT ![c].status = "ok"]
    /\ UNCHANGED <<authVars, vaultVars, nextId, passes, uploads, events, dels>>

\* the delete call rejects (no fileId, no such object, a transport failure):
\* nothing awaits it, the rejection is unhandled
DeleteCallRejects(c) ==
    /\ deleteCalls[c].status = "inflight"
    /\ deleteCalls' = [deleteCalls EXCEPT ![c].status = "failed"]
    /\ UNCHANGED <<authVars, vaultVars, remoteVars, passes, uploads, events, dels>>

(***************************************************************************)
(* The initial states: a fresh install (nothing stored) whose first onload *)
(* has run, so that the first call of syncFiles has issued its list call;  *)
(* the vault and the remote folder hold what the user put there.           *)
(***************************************************************************)
Init ==
    /\ saved = NoData
    /\ settings = loadSettings(saved)
    /\ isAuth = FALSE
    /\ alreadyNotice = FALSE
    /\ exchanged = FALSE
    /\ auths = << >>
    /\ dirKind \in {"folder", "file", "missing"}
    /\ \E I \in SUBSET DOMAIN AllItems :
          /\ Cardinality(I) <= MaxLocal
          /\ dirKind # "folder" => I = {}
          /\ children = ItemsAt(I)
    /\ rootFiles \in SUBSET EventNames
    /\ \E I \in SUBSET DOMAIN InitialObjects :
          /\ Cardinality(I) <= MaxRemote
          /\ remote = RemoteOf(I)
          /\ nextId = Cardinality(I) + 1
    /\ passes = << NewPass >>
    /\ uploads = << >>
    /\ events = << >>
    /\ dels = << >>
    /\ deleteCalls = << >>

\* the sequences of at most MaxEventFiles names a drop / paste event may carry
EventFiles == UNION {[1..n -> EventNames] : n \in 0..MaxEventFiles}

Next ==
    \/ Onload
    \/ \E value \in ClientValues : SetClientId(value)
    \/ \E value \in ClientValues : SetClientSecret(value)
    \/ AuthenticateUser
    \/ \E a \in DOMAIN auths, authCode \in AuthCodes : SubmitCode(a, authCode)
    \/ \E a \in DOMAIN auths, tokens \in TokenResponses : GetTokenResolves(a, tokens)
    \/ \E a \in DOMAIN auths : GetTokenRejects(a)
    \/ \E a \in DOMAIN auths : SaveDataResolves(a)
    \/ \E a \in DOMAIN auths : SaveDataRejects(a)
    \/ \E p \in DOMAIN passes : SyncListResolves(p)
    \/ \E p \in DOMAIN passes : SyncListRejects(p)
    \/ \E p \in DOMAIN passes : SyncReadResolves(p)
    \/ \E p \in DOMAIN passes : SyncReadRejects(p)
    \/ \E kind \in {"drop", "paste"}, files \in EventFiles : HandleUpload(kind, files)
    \/ \E u \in DOMAIN uploads : CreateResolves(u)
    \/ \E u \in DOMAIN uploads : CreateRejects(u)
    \/ \E e \in DOMAIN events : RenameResolves(e)
    \/ \E e \in DOMAIN events : RenameRejects(e)
    \/ \E n \in DeleteNames, place \in {"dir", "root", "other"} : DeleteEvent(n, place)
    \/ \E d \in DOMAIN dels, thisFile \in remote \cup {NoFile} : DeleteListResolves(d, thisFile)
    \/ \E d \in DOMAIN dels : DeleteListRejects(d)
    \/ \E c \in DOMAIN deleteCalls : DeleteCallResolves(c)
    \/ \E c \in DOMAIN deleteCalls : DeleteCallRejects(c)

\* the whole plugin
Spec == Init /\ [][Next]_vars

(***************************************************************************)
(* The reconciliation passes alone: nothing else changes the vault or the  *)
(* remote folder.                                                          *)
(***************************************************************************)
InitSync == Init /\ rootFiles = {}

NextSync ==
    \/ Onload
    \/ \E p \in DOMAIN passes : SyncListResolves(p)
    \/ \E p \in DOMAIN passes : SyncListRejects(p)
    \/ \E p \in DOMAIN passes : SyncReadResolves(p)
    \/ \E p \in DOMAIN passes : SyncReadRejects(p)
    \/ \E u \in DOMAIN uploads : CreateResolves(u)
    \/ \E u \in DOMAIN uploads : CreateRejects(u)

SpecSync == InitSync /\ [][NextSync]_vars

(***************************************************************************)
(* The settings and the authorization flow alone.                          *)
(***************************************************************************)
InitAuth == Init /\ dirKind = "folder" /\ children = << >> /\ rootFiles = {} /\ remote = {}

NextAuth ==
    \/ Onload
    \/ \E value \in ClientValues : SetClientId(value)
    \/ \E value \in ClientValues : SetClientSecret(value)
    \/ AuthenticateUser
    \/ \E a \in DOMAIN auths, authCode \in AuthCodes : SubmitCode(a, authCode)
    \/ \E a \in DOMAIN auths, tokens \in TokenResponses : GetTokenResolves(a, tokens)
    \/ \E a \in DOMAIN auths : GetTokenRejects(a)
    \/ \E a \in DOMAIN auths : SaveDataResolves(a)
    \/ \E a \in DOMAIN auths : SaveDataRejects(a)

SpecAuth == InitAuth /\ [][NextAuth]_vars

(***************************************************************************)
(* The deletion propagator alone.                                          *)
(***************************************************************************)
InitDelete == Init /\ dirKind = "folder" /\ rootFiles = {}

NextDelete ==
    \/ \E n \in DeleteNames, place \in {"dir", "root", "other"} : DeleteEvent(n, place)
    \/ \E d \in DOMAIN dels, thisFile \in remote \cup {NoFile} : DeleteListResolves(d, thisFile)
    \/ \E d \in DOMAIN dels : DeleteListRejects(d)
    \/ \E c \in DOMAIN deleteCalls : DeleteCallResolves(c)
    \/ \E c \in DOMAIN deleteCalls : DeleteCallRejects(c)

SpecDelete == InitDelete /\ [][NextDelete]_vars

(***************************************************************************)
(* The drop / paste path alone.                                            *)
(***************************************************************************)
InitDrop == Init /\ dirKind = "folder" /\ children = << >> /\ remote = {}

NextDrop ==
    \/ \E kind \in {"drop", "paste"}, files \in EventFiles : HandleUpload(kind, files)
    \/ \E u \in DOMAIN uploads : CreateResolves(u)
    \/ \E u \in DOMAIN uploads : CreateRejects(u)
    \/ \E e \in DOMAIN events : RenameResolves(e)
    \/ \E e \in DOMAIN events : RenameRejects(e)

SpecDrop == InitDrop /\ [][NextDrop]_vars

(***************************************************************************)
(* The startup pass together with drop / paste events and delete events.   *)
(***************************************************************************)
\* the bounds of this specification: local files, remote objects, events,
\* files per event and delete events
MixLocal == 1
MixRemote == 1
MixEvents == 1
MixEventFiles == 1
MixDeletes == 1

InitMix ==
    /\ Init
    /\ dirKind = "folder"
    /\ Len(children) <= MixLocal
    /\ Cardinality(remote) <= MixRemote

NextMix ==
    \/ \E p \in DOMAIN passes : SyncListResolves(p)
    \/ \E p \in DOMAIN passes : SyncListRejects(p)
    \/ \E p \in DOMAIN passes : SyncReadResolves(p)
    \/ \E p \in DOMAIN passes : SyncReadRejects(p)
    \/ \E kind \in {"drop", "paste"}, files \in EventFiles :
          Len(events) < MixEvents /\ Len(files) <= MixEventFiles /\ HandleUpload(kind, files)
    \/ \E u \in DOMAIN uploads : CreateResolves(u)
    \/ \E u \in DOMAIN uploads : CreateRejects(u)
    \/ \E e \in DOMAIN events : RenameResolves(e)
    \/ \E e \in DOMAIN events : RenameRejects(e)
    \/ \E n \in DeleteNames, place \in {"dir", "root", "other"} :
          Len(dels) < MixDeletes /\ DeleteEvent(n, place)
    \/ \E d \in DOMAIN dels, thisFile \in remote \cup {NoFile} : DeleteListResolves(d, thisFile)
    \/ \E d \in DOMAIN dels : DeleteListRejects(d)
    \/ \E c \in DOMAIN deleteCalls : DeleteCallResolves(c)
    \/ \E c \in DOMAIN deleteCalls : DeleteCallRejects(c)

SpecMix == InitMix /\ [][NextMix]_vars

(***************************************************************************)
(* Properties of the reconciliation pass (checked under SpecSync).         *)
(***************************************************************************)
\* the indices of the uploads a caller started
UploadsOf(by, owner) == {u \in DOMAIN uploads : uploads[u].by = by /\ uploads[u].owner = owner}

\* the indices of the uploads pass p started for the name n
SyncUploadsOf(p, n) == {u \in UploadsOf("sync", p) : uploads[u].name = n}

\* the pass p has its listing and its enumeration, and its loop is over
PassOver(p) == passes[p].pc \in {"done", "readRejected"}

\* the listing of pass p has no record named n
Unlisted(p, n) == \A r \in passes[p].driveFiles : r.name # n

\* the read of file j of pass p was rejected
ReadRejectedAt(p, j) == passes[p].pc = "readRejected" /\ passes[p].i = j

\* C1: a pass whose loop is over has started one upload for each enumerated
\* file whose name is the name of no listed record, and none for a file whose
\* name is listed (a file whose own content could not be read is left aside)
C1_UploadsExactlyMissing ==
    \A p \in DOMAIN passes :
        PassOver(p) =>
            \A j \in DOMAIN passes[p].vaultFiles :
                LET n == passes[p].vaultFiles[j].name
                IN ~ReadRejectedAt(p, j) =>
                     Cardinality(SyncUploadsOf(p, n)) = IF Unlisted(p, n) THEN 1 ELSE 0

\* the same for the passes whose every read resolved: there the set difference
\* is what is uploaded
SyncUploadsMissingWhenReadsResolve ==
    \A p \in DOMAIN passes :
        passes[p].pc = "done" =>
            \A j \in DOMAIN passes[p].vaultFiles :
                LET n == passes[p].vaultFiles[j].name
                IN Cardinality(SyncUploadsOf(p, n)) = IF Unlisted(p, n) THEN 1 ELSE 0

\* C2: a pass made after the pass before it had resolved starts no upload
C2_SecondPassUploadsNothing ==
    \A q \in DOMAIN passes : passes[q].afterDone => UploadsOf("sync", q) = {}

\* C9: a pass whose loop is over has started an upload for every missing file
\* other than the one whose read was rejected
C9_ReadFailureDoesNotAbort ==
    \A p \in DOMAIN passes :
        PassOver(p) =>
            \A j \in DOMAIN passes[p].vaultFiles :
                LET n == passes[p].vaultFiles[j].name
                IN (Unlisted(p, n) /\ ~ReadRejectedAt(p, j)) => SyncUploadsOf(p, n) # {}

\* the content type the claim gives an extension: the table's entry for the
\* extension in lower case, application/octet-stream when it has none
TableType(extension) ==
    IF toLowerCase(extension) \in DOMAIN mimeTypes
    THEN mimeTypes[toLowerCase(extension)]
    ELSE "application/octet-stream"

\* C10: every upload a pass starts carries the table's content type for the
\* file's extension
C10_SyncUploadTypeFromTable ==
    \A u \in DOMAIN uploads :
        uploads[u].by = "sync" => uploads[u].type = TableType(ItemNamed(uploads[u].name).extension)

\* the same for the extensions that name no inherited property of the table
\* object: there the table, or application/octet-stream, is what is sent
SyncUploadTypeFromTableOwnKeys ==
    \A u \in DOMAIN uploads :
        LET extension == ItemNamed(uploads[u].name).extension
        IN (uploads[u].by = "sync" /\ toLowerCase(extension) \notin DOMAIN ObjectPrototype)
             => uploads[u].type = TableType(extension)

\* the configured local directory is missing, is no folder, or holds no file
NoLocalFiles == dirKind # "folder" \/ \A c \in DOMAIN children : ~children[c].isFile

\* C11: with no local file to enumerate, a pass starts no upload and does not
\* reject (it is awaiting its list call or it is done), and once it is done
\* with a missing or non-folder directory it has logged the error and
\* enumerated nothing
C11_NoLocalFilesNoUploadNoThrow ==
    \A p \in DOMAIN passes :
        NoLocalFiles =>
            /\ UploadsOf("sync", p) = {}
            /\ passes[p].pc \in {"listing", "done"}
            /\ (passes[p].pc = "done" /\ dirKind # "folder") =>
                  (passes[p].logged /\ passes[p].vaultFiles = << >>)

\* the same for the passes whose list call did not reject: no upload, no read,
\* the error logged
NoLocalFilesNoUploadWhenListResolves ==
    \A p \in DOMAIN passes :
        (NoLocalFiles /\ passes[p].pc # "listRejected") =>
            /\ UploadsOf("sync", p) = {}
            /\ passes[p].pc \in {"listing", "done"}
            /\ (passes[p].pc = "done" /\ dirKind # "folder") =>
                  (passes[p].logged /\ passes[p].vaultFiles = << >>)

\* the number of entries of the enumeration of pass p that are named n
EnumeratedAs(p, n) ==
    Cardinality({j \in DOMAIN passes[p].vaultFiles : passes[p].vaultFiles[j].name = n})

\* C15: a failed list call of a pass is reported by a notice and leads to no
\* upload; a failed create call of a pass is reported by the failure notice;
\* a pass issues at most one create call per enumerated file (no retry)
C15_RemoteFailureReported ==
    \A p \in DOMAIN passes :
        /\ passes[p].pc = "listRejected" =>
              (passes[p].notice # "" /\ UploadsOf("sync", p) = {})
        /\ \A u \in UploadsOf("sync", p) :
              /\ uploads[u].status = "failed" => uploads[u].notice = "Failed to upload"
              /\ Cardinality(SyncUploadsOf(p, uploads[u].name))
                     <= EnumeratedAs(p, uploads[u].name)

\* what does hold: all of it but the notice of the failed list call
CreateFailureReportedNoRetry ==
    \A p \in DOMAIN passes :
        /\ passes[p].pc = "listRejected" => UploadsOf("sync", p) = {}
        /\ \A u \in UploadsOf("sync", p) :
              /\ uploads[u].status = "failed" => uploads[u].notice = "Failed to upload"
              /\ Cardinality(SyncUploadsOf(p, uploads[u].name))
                     <= EnumeratedAs(p, uploads[u].name)

\* C18: no step of a reconciliation pass or of an upload it started takes an
\* object (an id with its name) out of the remote folder, and no delete call
\* is issued
C18_PassOnlyAdds ==
    [][remote \subseteq remote' /\ deleteCalls' = << >>]_vars

\* a pass is over, all its uploads resolved, and the remote folder holds an
\* object the pass was listed together with the objects it created
C18_Witness ==
    \E p \in DOMAIN passes :
        /\ PassOver(p)
        /\ UploadsOf("sync", p) # {}
        /\ \A u \in UploadsOf("sync", p) : uploads[u].status = "ok"
        /\ passes[p].driveFiles # {}
        /\ passes[p].driveFiles \subseteq remote
        /\ Cardinality(remote) > Cardinality(passes[p].driveFiles)

\* the list call of pass p has been issued
ListCallIssued(p) ==
    passes[p].pc \in {"listing", "reading", "done", "listRejected", "readRejected"}

\* C19: a pass that read an empty clientId or clientSecret issues no list
\* call and starts no upload, and reports the missing configuration
C19_EmptyClientDataAbortsPass ==
    \A p \in DOMAIN passes :
        (passes[p].clientId = "" \/ passes[p].clientSecret = "") =>
            /\ ~ListCallIssued(p)
            /\ UploadsOf("sync", p) = {}
            /\ passes[p].notice # ""

(***************************************************************************)
(* Properties of the deletion propagator (checked under SpecDelete).       *)
(***************************************************************************)
\* the indices of the delete calls the run d made
DeleteCallsOf(d) == {c \in DOMAIN deleteCalls : deleteCalls[c].by = d}

\* the ids of the objects the run d saw listed under the deleted file's name
ListedIds(d) == {f.id : f \in {g \in dels[d].driveFiles : g.name = dels[d].name}}

\* C3: a run whose listing has no object of the deleted file's name makes no
\* delete call, and shows no failure notice
C3_NoMatchNoDeleteCall ==
    \A d \in DOMAIN dels :
        (dels[d].pc = "done" /\ ListedIds(d) = {}) =>
            /\ DeleteCallsOf(d) = {}
            /\ dels[d].notice # "File wasn't deleted"

\* C4: a run whose listing has an object of the deleted file's name has made
\* exactly one delete call, for the id of such an object; a run makes no call
\* before it has its listing; and every delete call that names an object names
\* one that its run saw listed under the deleted file's name
C4_DeleteTargetsMatchingName ==
    /\ \A d \in DOMAIN dels :
          /\ (dels[d].pc = "done" /\ ListedIds(d) # {}) =>
                /\ Cardinality(DeleteCallsOf(d)) = 1
                /\ \A c \in DeleteCallsOf(d) : deleteCalls[c].fileId \in ListedIds(d)
          /\ dels[d].pc # "done" => DeleteCallsOf(d) = {}
    /\ \A c \in DOMAIN deleteCalls :
          deleteCalls[c].fileId # NoId => deleteCalls[c].fileId \in ListedIds(deleteCalls[c].by)

\* a delete event for a listed name has removed that object, and an object of
\* another name is still in the folder
C4_Witness ==
    \E d \in DOMAIN dels, c \in DOMAIN deleteCalls :
        /\ dels[d].pc = "done"
        /\ deleteCalls[c].by = d
        /\ deleteCalls[c].status = "ok"
        /\ deleteCalls[c].fileId \in ListedIds(d)
        /\ \E f \in dels[d].driveFiles : f.name # dels[d].name /\ f \in remote

\* C13: once the delete call of a run is over (a call for a listed object; the
\* call without a fileId is left aside), its success notice stands for a delete
\* call that succeeded and a failed delete call has its failure notice; a
\* failed list call has the failure notice; and a run makes at most one delete
\* call
C13_NoticeReportsOutcome ==
    \A d \in DOMAIN dels :
        /\ Cardinality(DeleteCallsOf(d)) <= 1
        /\ dels[d].pc = "listRejected" => dels[d].notice = "File wasn't deleted"
        /\ (\A c \in DeleteCallsOf(d) :
                deleteCalls[c].status # "inflight" /\ deleteCalls[c].fileId # NoId) =>
              /\ dels[d].notice = "File successfully deleted" =>
                    \E c \in DeleteCallsOf(d) : deleteCalls[c].status = "ok"
              /\ (\E c \in DeleteCallsOf(d) : deleteCalls[c].status = "failed") =>
                    dels[d].notice = "File wasn't deleted"

\* what does hold: at most one delete call per run, the failure notice for a
\* failed list call, and the success notice as soon as the list call resolved
DeleteNoticeFollowsListCall ==
    \A d \in DOMAIN dels :
        /\ Cardinality(DeleteCallsOf(d)) <= 1
        /\ dels[d].pc = "listRejected" => dels[d].notice = "File wasn't deleted"
        /\ dels[d].pc = "done" => dels[d].notice = "File successfully deleted"
        /\ dels[d].pc = "listing" => dels[d].notice = ""

(***************************************************************************)
(* Properties of the drop / paste path (checked under SpecDrop).           *)
(***************************************************************************)
\* the names of the uploads of the run e, in the order they were started
RECURSIVE AttemptsUpTo(_, _)
AttemptsUpTo(e, k) ==
    IF k = 0 THEN << >>
    ELSE IF uploads[k].by = "drop" /\ uploads[k].owner = e
         THEN Append(AttemptsUpTo(e, k - 1), uploads[k].name)
         ELSE AttemptsUpTo(e, k - 1)

Attempts(e) == AttemptsUpTo(e, Len(uploads))

\* C5: a run of handleUpload that is over has made one upload attempt per file
\* of its event, in the order of the event
C5_OneAttemptPerFile ==
    \A e \in DOMAIN events : events[e].pc = "done" => Attempts(e) = events[e].files

\* the same for the drop events alone, with the sequencing: the attempts so far
\* are the files before the current one, an attempt is in flight only for the
\* current file, and that while the run awaits it
DropAttemptsSequential ==
    \A e \in DOMAIN events :
        events[e].kind = "drop" =>
            /\ events[e].pc = "done" => Attempts(e) = events[e].files
            /\ events[e].pc # "done" => Attempts(e) = SubSeq(events[e].files, 1, events[e].i)
            /\ \A u \in UploadsOf("drop", e) :
                  uploads[u].status = "inflight" =>
                      /\ events[e].pc = "uploading"
                      /\ \A v \in UploadsOf("drop", e) : v <= u

\* the uploads of the run e whose create call is in flight
InFlightOf(e) == {u \in UploadsOf("drop", e) : uploads[u].status = "inflight"}

\* C12, as stated: at most one upload started by handleUpload is in flight,
\* over all its runs
C12_OneDropUploadInFlight ==
    Cardinality(UNION {InFlightOf(e) : e \in DOMAIN events}) <= 1

\* C12, amended: each run of handleUpload has at most one upload in flight
C12_OneUploadInFlightPerEvent ==
    \A e \in DOMAIN events : Cardinality(InFlightOf(e)) <= 1

\* two drop events of two files each are being processed, each with the
\* upload of one file in flight
C12_Witness ==
    \E e1, e2 \in DOMAIN events :
        /\ e1 # e2
        /\ Len(events[e1].files) = 2 /\ Len(events[e2].files) = 2
        /\ events[e1].i = 2 /\ events[e2].i = 1
        /\ Cardinality(InFlightOf(e1)) = 1 /\ Cardinality(InFlightOf(e2)) = 1

\* the upload of the file the run e is at: the last one it started
CurrentUpload(e) == CHOOSE u \in UploadsOf("drop", e) : \A v \in UploadsOf("drop", e) : v <= u

\* C14: while a run of handleUpload relocates a file, the upload of that file
\* has succeeded
C14_RelocationOnlyAfterSuccess ==
    \A e \in DOMAIN events :
        events[e].pc = "renaming" => uploads[CurrentUpload(e)].status = "ok"

\* what does hold: the relocation of a file is attempted once its upload is
\* over, whatever its outcome, for the file's own name
RelocationAfterUploadIsOver ==
    \A e \in DOMAIN events :
        events[e].pc = "renaming" =>
            /\ uploads[CurrentUpload(e)].status \in {"ok", "failed"}
            /\ uploads[CurrentUpload(e)].name = events[e].files[events[e].i]
            /\ events[e].moved[Len(events[e].moved)] = events[e].files[events[e].i]

(***************************************************************************)
(* Properties of the interleavings (checked under SpecMix).                *)
(***************************************************************************)
\* C16: no create call was issued for a name that an object of the remote
\* folder held when the call was issued
C16_NoCreateForHeldName ==
    \A u \in DOMAIN uploads : ~uploads[u].held

\* what does hold: the pass issues no create call for a name of its listing
SyncCreatesOnlyUnlistedNames ==
    \A p \in DOMAIN passes : \A u \in UploadsOf("sync", p) : Unlisted(p, uploads[u].name)

\* the uploads of the name n started before / after the delete event of run d
UploadsBefore(d, n) == {u \in DOMAIN uploads : u <= dels[d].upsBefore /\ uploads[u].name = n}
UploadsAfter(d, n) == {u \in DOMAIN uploads : u > dels[d].upsBefore /\ uploads[u].name = n}

\* the delete handler d and the uploads of its name started before its event
\* are over with no remote failure, nothing uploaded the name afterwards, no
\* upload of the name was for a held name, and the listing of d had the name
\* at most once
QuiescentAfterDelete(d) ==
    LET n == dels[d].name
    IN /\ dels[d].pc = "done"
       /\ \A c \in DeleteCallsOf(d) :
             deleteCalls[c].fileId # NoId => deleteCalls[c].status = "ok"
       /\ \A c \in DeleteCallsOf(d) : deleteCalls[c].status # "inflight"
       /\ \A u \in UploadsBefore(d, n) : uploads[u].status = "ok" /\ ~uploads[u].held
       /\ UploadsAfter(d, n) = {}
       /\ \A p \in DOMAIN passes : passes[p].pc \in {"done", "listRejected", "readRejected"}
       /\ Cardinality(FindByName(dels[d].driveFiles, n)) <= 1

\* C17: once the delete handler of a file named n and the uploads of n
\* started before the delete event are over without a remote failure, the
\* remote folder has no object named n
C17_DeletedNameGoneFromRemote ==
    \A d \in DOMAIN dels :
        QuiescentAfterDelete(d) => \A r \in remote : r.name # dels[d].name

\* what does hold: the same when no upload of n was started before the event
DeletedNameGoneWithoutUploads ==
    \A d \in DOMAIN dels :
        (QuiescentAfterDelete(d) /\ UploadsBefore(d, dels[d].name) = {}) =>
            \A r \in remote : r.name # dels[d].name

(***************************************************************************)
(* Properties of the authorization flow (checked under SpecAuth).          *)
(***************************************************************************)
\* the step in which the token exchange of invocation a fails
ExchangeFails(a) ==
    /\ a \in DOMAIN auths /\ a \in DOMAIN auths'
    /\ auths[a].exchange = "inflight"
    /\ auths'[a].exchange = "failed"

C7_TokensBothOrNeither == Truthy(settings.accessToken) <=> Truthy(settings.refreshToken)

\* the invocation read an empty client id or an empty client secret
ReadEmptyClientData(a) == a.clientId = "" \/ a.clientSecret = ""

\* C8: an invocation of authenticateUser that read an empty client id or client
\* secret shows the configuration notice, opens no URL and no prompt and
\* attempts no exchange, and the step that makes it changes neither the
\* settings nor the stored data nor any other invocation
C8_EmptyClientDataStopsAuth ==
    /\ [](\A a \in DOMAIN auths :
            ReadEmptyClientData(auths[a]) =>
                /\ auths[a].notice = "Invalid client data"
                /\ ~auths[a].url
                /\ auths[a].prompt = "none"
                /\ auths[a].exchange = "none")
    /\ [][(Len(auths') = Len(auths) + 1 /\ ReadEmptyClientData(auths'[Len(auths')])) =>
            /\ settings' = settings
            /\ saved' = saved
            /\ \A a \in DOMAIN auths : auths'[a] = auths[a]]_vars

\* authenticateUser was invoked with a client id and no client secret, while
\* tokens of an earlier exchange are stored
C8_Witness ==
    \E a \in DOMAIN auths :
        /\ auths[a].clientId # ""
        /\ auths[a].clientSecret = ""
        /\ auths[a].notice = "Invalid client data"
        /\ Truthy(settings.accessToken)

====
